---- MODULE Spec2Model ----
(***************************************************************************)
(* Model of the Txo store of full-service (full-service/src/db/txo.rs):    *)
(* the txos and account_txo_statuses tables, the operations of TxoModel    *)
(* that write them, and the coin selection that reads them.                *)
(***************************************************************************)
EXTENDS Integers, Sequences, FiniteSets, TLC

(***************************************************************************)
(* Bounds of the model.                                                    *)
(***************************************************************************)
\* Largest value of an output kept in the store.
MaxValue == 2
\* Largest block height handed to an operation.
MaxHeight == 2
\* Largest subaddress index handed to an operation.
MaxSubaddress == 0

(***************************************************************************)
(* Program constants.                                                      *)
(***************************************************************************)
MAX_INPUTS == 16

TXO_UNSPENT == "unspent"
TXO_PENDING == "pending"
TXO_SPENT == "spent"
TXO_SECRETED == "secreted"
TXO_ORPHANED == "orphaned"
TXO_RECEIVED == "received"
TXO_MINTED == "minted"
OUTPUT == "output"
CHANGE == "change"

(***************************************************************************)
(* Option<T>: None is the empty tuple, Some(x) the one-element tuple.      *)
(***************************************************************************)
None == << >>
Some(x) == << x >>
is_some(o) == o # None
is_none(o) == o = None
unwrap(o) == o[1]
OptionOf(S) == {None} \cup {Some(x) : x \in S}

(***************************************************************************)
(* The environment: the accounts of the wallet, the output of the ledger   *)
(* the store is followed for, and the key image of an output.              *)
(***************************************************************************)
Accounts == {"a1", "a2"}
TxOuts == {"o1"}
Heights == 1..MaxHeight
Values == 1..MaxValue
SubaddressIndices == 0..MaxSubaddress

\* TxoID::from(&TxOut): the hex digest of the output's contents; distinct
\* outputs have distinct digests.
TxoID(txo) == IF txo = "o1" THEN "t1" ELSE "t2"

\* The key image of an output, as its owner computes it.
KeyImage(txo) == IF txo = "o1" THEN "k1" ELSE "k2"

KeyImages == {KeyImage(o) : o \in TxOuts}

\* The assigned_subaddresses table: every account has its main subaddress
\* (index 0) assigned; higher indices are not assigned.
assigned_subaddresses == {<<a, 0>> : a \in Accounts}

VARIABLES
    txos,                   \* the txos table: a sequence of rows, row i has id i
    account_txo_statuses,   \* the account_txo_statuses table: a set of rows
    received_calls,         \* history: the (account, txo id) pairs create_received was called for
    minted_unowned,         \* history: txo ids inserted by create_minted without an account id
    candidates,             \* coin selection alone: the candidate values, descending
    target,                 \* coin selection alone: the target value
    selection,              \* coin selection alone: the result
    pc                      \* the race of two create_received calls: each call's position

vars == <<txos, account_txo_statuses, received_calls, minted_unowned,
          candidates, target, selection, pc>>

(***************************************************************************)
(* The store connection: both tables, and the number of store writes left  *)
(* before one fails with a store error (0: none fails).                    *)
(***************************************************************************)
Conn(t, s, f) == [txos |-> t, statuses |-> s, fault |-> f]

Ok(db, v) == [err |-> "", db |-> db, val |-> v]
Err(db, e) == [err |-> e, db |-> db, val |-> None]
is_ok(r) == r.err = ""

\* One write statement reaching the store: it fails when the injected fault
\* is due, and counts down otherwise.
write_fails(db) == db.fault = 1
after_write(db) == [db EXCEPT !.fault = IF db.fault > 0 THEN db.fault - 1 ELSE 0]

\* A faulty variant of transaction: an error does not roll the tables back.
transaction_no_rollback(pre, r) == r

\* conn.transaction(|| ...): an error returned by the closure rolls the
\* tables back to what they were when the transaction began.
transaction(pre, r) ==
    IF is_ok(r) THEN r ELSE [r EXCEPT !.db = [pre EXCEPT !.fault = r.db.fault]]

(***************************************************************************)
(* Rows.                                                                   *)
(***************************************************************************)
Min(S) == CHOOSE x \in S : \A y \in S : x <= y

RowsOf(t, txo_id_hex) == {i \in DOMAIN t : t[i].txo_id_hex = txo_id_hex}

\* The inner join of txos and account_txo_statuses on txo_id_hex: the pairs
\* of the position of a Txo row and a status row of its id.
joined_rows(db) ==
    {<<i, r>> \in (DOMAIN db.txos) \X db.statuses :
        db.txos[i].txo_id_hex = r.txo_id_hex}

StatusRows(s, account_id_hex, txo_id_hex) ==
    {r \in s : r.account_id_hex = account_id_hex /\ r.txo_id_hex = txo_id_hex}

\* insert_into(txos::table): the row gets the next id; the unique index on
\* txo_id_hex rejects a second row of the same output.
insert_txo(db, new_txo) ==
    IF write_fails(db) THEN Err(db, "StoreError")
    ELSE IF RowsOf(db.txos, new_txo.txo_id_hex) # {}
    THEN Err(after_write(db), "UniqueViolation")
    ELSE Ok([after_write(db) EXCEPT
                !.txos = Append(db.txos, [id |-> Len(db.txos) + 1] @@ new_txo)], None)

\* insert_into(account_txo_statuses::table): the primary key is
\* (account_id_hex, txo_id_hex).
insert_account_txo_status(db, new_status) ==
    IF write_fails(db) THEN Err(db, "StoreError")
    ELSE IF StatusRows(db.statuses, new_status.account_id_hex, new_status.txo_id_hex) # {}
    THEN Err(after_write(db), "UniqueViolation")
    ELSE Ok([after_write(db) EXCEPT !.statuses = db.statuses \cup {new_status}], None)

\* AccountTxoStatus::create
AccountTxoStatus_create(db, account_id_hex, txo_id_hex, txo_status, txo_type) ==
    insert_account_txo_status(db,
        [account_id_hex |-> account_id_hex, txo_id_hex |-> txo_id_hex,
         txo_status |-> txo_status, txo_type |-> txo_type])

\* AccountTxoStatus::get
AccountTxoStatus_get(db, account_id_hex, txo_id_hex) ==
    LET rows == StatusRows(db.statuses, account_id_hex, txo_id_hex)
    IN  IF rows = {} THEN Err(db, "AccountTxoStatusNotFound")
        ELSE Ok(db, CHOOSE r \in rows : TRUE)

\* The update of one status row found by its primary key.
set_status(db, account_id_hex, txo_id_hex, txo_status) ==
    IF write_fails(db) THEN Err(db, "StoreError")
    ELSE Ok([after_write(db) EXCEPT !.statuses =
                {IF r.account_id_hex = account_id_hex /\ r.txo_id_hex = txo_id_hex
                 THEN [r EXCEPT !.txo_status = txo_status] ELSE r : r \in db.statuses}],
            None)

\* AccountTxoStatus::set_unspent
set_unspent(db, account_txo_status) ==
    set_status(db, account_txo_status.account_id_hex, account_txo_status.txo_id_hex,
               TXO_UNSPENT)

(***************************************************************************)
(* Txo::get                                                                *)
(***************************************************************************)
\* A faulty variant of get: the status row is looked up before the Txo row.
get_status_first(db, account_id_hex, txo_id_hex) ==
    LET rows == RowsOf(db.txos, txo_id_hex)
        account_txo_status == AccountTxoStatus_get(db, account_id_hex, txo_id_hex)
    IN  IF ~is_ok(account_txo_status) THEN Err(db, "TxoExistsForAnotherAccount")
        ELSE IF rows = {} THEN Err(db, "TxoNotFound")
        ELSE Ok(db, <<db.txos[Min(rows)], account_txo_status.val>>)

\* A faulty variant of get: a Txo of another account counts as not found.
get_no_other_account(db, account_id_hex, txo_id_hex) ==
    LET rows == RowsOf(db.txos, txo_id_hex)
        account_txo_status == AccountTxoStatus_get(db, account_id_hex, txo_id_hex)
    IN  IF rows = {} \/ ~is_ok(account_txo_status) THEN Err(db, "TxoNotFound")
        ELSE Ok(db, <<db.txos[Min(rows)], account_txo_status.val>>)

get(db, account_id_hex, txo_id_hex) ==
    LET rows == RowsOf(db.txos, txo_id_hex)
    IN  IF rows = {} THEN Err(db, "TxoNotFound")
        ELSE
        LET txo == db.txos[Min(rows)]
            account_txo_status == AccountTxoStatus_get(db, account_id_hex, txo_id_hex)
        IN  IF ~is_ok(account_txo_status)
            THEN Err(db, "TxoExistsForAnotherAccount")
            ELSE IF is_some(txo.subaddress_index)
                    /\ <<account_id_hex, unwrap(txo.subaddress_index)>>
                           \notin assigned_subaddresses
            THEN Err(db, "AssignedSubaddressNotFound")
            ELSE Ok(db, <<txo, account_txo_status.val>>)

\* A faulty variant of update_to_spendable: absent values are written too.
update_to_spendable_unchecked(db, self, received_subaddress_index, received_key_image, block_height) ==
    IF write_fails(db) THEN Err(db, "StoreError")
    ELSE Ok([after_write(db) EXCEPT !.txos =
                [i \in DOMAIN db.txos |->
                    IF db.txos[i].id = self.id
                    THEN [db.txos[i] EXCEPT
                            !.received_block_height = Some(block_height),
                            !.subaddress_index = received_subaddress_index,
                            !.key_image = received_key_image]
                    ELSE db.txos[i]]],
            None)

(***************************************************************************)
(* Txo::update_to_spendable                                                *)
(***************************************************************************)
update_to_spendable(db, self, received_subaddress_index, received_key_image, block_height) ==
    IF is_none(received_subaddress_index) \/ is_none(received_key_image)
    THEN Err(db, "NullSubaddressOnReceived")
    ELSE IF write_fails(db) THEN Err(db, "StoreError")
    ELSE Ok([after_write(db) EXCEPT !.txos =
                [i \in DOMAIN db.txos |->
                    IF db.txos[i].id = self.id
                    THEN [db.txos[i] EXCEPT
                            !.received_block_height = Some(block_height),
                            !.subaddress_index = received_subaddress_index,
                            !.key_image = received_key_image]
                    ELSE db.txos[i]]],
            None)

(***************************************************************************)
(* Txo::update_received                                                    *)
(***************************************************************************)
\* A faulty variant of the match below: a minted pair is not set unspent.
update_received_by_type_keep_status(db, self, account_txo_status, received_subaddress_index, received_key_image, received_block_height) ==
    IF account_txo_status.txo_type = TXO_RECEIVED /\ is_none(received_subaddress_index)
    THEN Ok(db, None)
    ELSE update_to_spendable(db, self, received_subaddress_index,
                             received_key_image, received_block_height)

\* A faulty variant of the match below: a received pair is set unspent too.
update_received_by_type_force_unspent(db, self, account_txo_status, received_subaddress_index, received_key_image, received_block_height) ==
    LET u == update_to_spendable(db, self, received_subaddress_index,
                                 received_key_image, received_block_height)
    IN  IF account_txo_status.txo_type = TXO_RECEIVED /\ is_none(received_subaddress_index)
        THEN Ok(db, None)
        ELSE IF ~is_ok(u) THEN u ELSE set_unspent(u.db, account_txo_status)

\* A faulty variant of the match below: a pair received again becomes of
\* type received.
update_received_by_type_retype(db, self, account_txo_status, received_subaddress_index, received_key_image, received_block_height) ==
    LET u == update_received_by_type_force_unspent(db, self, account_txo_status,
                 received_subaddress_index, received_key_image, received_block_height)
    IN  IF ~is_ok(u) THEN u
        ELSE Ok([u.db EXCEPT !.statuses =
                    {IF r.account_id_hex = account_txo_status.account_id_hex
                        /\ r.txo_id_hex = account_txo_status.txo_id_hex
                     THEN [r EXCEPT !.txo_type = TXO_RECEIVED] ELSE r : r \in u.db.statuses}],
                None)

\* The match on the txo_type of the status row read at the start.
update_received_by_type(db, self, account_txo_status, received_subaddress_index, received_key_image, received_block_height) ==
    IF account_txo_status.txo_type = TXO_MINTED
    THEN LET u == update_to_spendable(db, self, received_subaddress_index,
                                      received_key_image, received_block_height)
         IN  IF ~is_ok(u) THEN u ELSE set_unspent(u.db, account_txo_status)
    ELSE IF account_txo_status.txo_type = TXO_RECEIVED
    THEN IF is_some(received_subaddress_index)
         THEN update_to_spendable(db, self, received_subaddress_index,
                                  received_key_image, received_block_height)
         ELSE Ok(db, None)
    ELSE Err(db, "panic")

\* A faulty variant of the block below: an orphaned status is left alone.
update_received_orphaned_skip(db, self, account_txo_status, received_subaddress_index, received_key_image, received_block_height) ==
    Ok(db, None)

\* A faulty variant of the block below: the rows of all accounts for the
\* Txo are set unspent.
update_received_orphaned_all_accounts(db, self, account_txo_status, received_subaddress_index, received_key_image, received_block_height) ==
    IF account_txo_status.txo_status = TXO_ORPHANED
    THEN LET u == update_to_spendable(db, self, received_subaddress_index,
                                      received_key_image, received_block_height)
         IN  IF ~is_ok(u) THEN u
             ELSE Ok([u.db EXCEPT !.statuses =
                         {IF r.txo_id_hex = self.txo_id_hex
                          THEN [r EXCEPT !.txo_status = TXO_UNSPENT] ELSE r :
                             r \in u.db.statuses}],
                     None)
    ELSE Ok(db, None)

\* The block that follows the match: a status read as orphaned.
update_received_orphaned(db, self, account_txo_status, received_subaddress_index, received_key_image, received_block_height) ==
    IF account_txo_status.txo_status = TXO_ORPHANED
    THEN LET u == update_to_spendable(db, self, received_subaddress_index,
                                      received_key_image, received_block_height)
         IN  IF ~is_ok(u) THEN u ELSE set_unspent(u.db, account_txo_status)
    ELSE Ok(db, None)

update_received(db, self, account_id_hex, received_subaddress_index, received_key_image, received_block_height) ==
    LET account_txo_status == AccountTxoStatus_get(db, account_id_hex, self.txo_id_hex)
        body ==
            IF ~is_ok(account_txo_status) THEN account_txo_status
            ELSE
            LET m == update_received_by_type(db, self, account_txo_status.val,
                        received_subaddress_index, received_key_image,
                        received_block_height)
            IN  IF ~is_ok(m) THEN m
                ELSE update_received_orphaned(m.db, self, account_txo_status.val,
                        received_subaddress_index, received_key_image,
                        received_block_height)
    IN  transaction(db, body)

(***************************************************************************)
(* Txo::create_received                                                    *)
(***************************************************************************)
\* A faulty variant of the status below: unspent whatever the subaddress index.
received_status_always_unspent(subaddress_index) == TXO_UNSPENT

\* The status of a row created for a received output.
received_status(subaddress_index) ==
    IF is_some(subaddress_index) THEN TXO_UNSPENT ELSE TXO_ORPHANED

\* A faulty variant of the arm below: no status row is created.
create_received_for_another_account_skip(db, txo_id, subaddress_index, account_id_hex) ==
    Ok(db, None)

\* The arm taken on Err(TxoExistsForAnotherAccount).
create_received_for_another_account(db, txo_id, subaddress_index, account_id_hex) ==
    AccountTxoStatus_create(db, account_id_hex, txo_id,
                            received_status(subaddress_index), TXO_RECEIVED)

\* The arm taken on Err(TxoNotFound).
create_received_new(db, txo_id, subaddress_index, key_image, value, received_block_height, account_id_hex) ==
    LET new_txo == [txo_id_hex |-> txo_id,
                    value |-> value,
                    subaddress_index |-> subaddress_index,
                    key_image |-> key_image,
                    received_block_height |-> Some(received_block_height),
                    pending_tombstone_block_height |-> None,
                    spent_block_height |-> None,
                    proof |-> None]
        ins == insert_txo(db, new_txo)
    IN  IF ~is_ok(ins) THEN ins
        ELSE AccountTxoStatus_create(ins.db, account_id_hex, txo_id,
                                     received_status(subaddress_index), TXO_RECEIVED)

\* The match on the result of Txo::get.
create_received_match(db, g, txo_id, subaddress_index, key_image, value, received_block_height, account_id_hex) ==
    IF is_ok(g)
    THEN update_received(db, g.val[1], account_id_hex, subaddress_index, key_image,
                         received_block_height)
    ELSE IF g.err = "TxoExistsForAnotherAccount"
    THEN create_received_for_another_account(db, txo_id, subaddress_index,
                                             account_id_hex)
    ELSE IF g.err = "TxoNotFound"
    THEN create_received_new(db, txo_id, subaddress_index, key_image, value,
                             received_block_height, account_id_hex)
    ELSE Err(db, g.err)

create_received(db, txo, subaddress_index, key_image, value, received_block_height, account_id_hex) ==
    LET txo_id == TxoID(txo)
        r == transaction(db,
                create_received_match(db, get(db, account_id_hex, txo_id), txo_id,
                    subaddress_index, key_image, value, received_block_height,
                    account_id_hex))
    IN  IF is_ok(r) THEN Ok(r.db, txo_id) ELSE r

(***************************************************************************)
(* Txo::create_minted                                                      *)
(***************************************************************************)
\* The width of the unsigned and signed 64-bit integers, scaled down.
ValueBits == 4

\* The number of values of that width.
U64 == 2 ^ ValueBits

\* a - b on u64 as the release build computes it: modulo the width.
wrapping_sub(a, b) == (a - b) % U64

\* v as i64: the upper half of the unsigned range becomes negative.
as_i64(v) == IF (v % U64) >= U64 \div 2 THEN (v % U64) - U64 ELSE v % U64

RECURSIVE SumValues(_)
SumValues(seq) == IF seq = << >> THEN 0 ELSE Head(seq).value + SumValues(Tail(seq))

\* The fee of the proposals of the model.
ProposalFee == 1

\* The change of the proposals of the model.
ProposalChange == 1

\* The proposals the transaction builder hands over: one input, one outlay
\* placed at output index 0, and the change at output index 1; the input
\* covers the outlay, the change and the fee.
Proposals ==
    {[utxos |-> <<[value |-> ov + ProposalChange + ProposalFee]>>,
      outlays |-> <<[value |-> ov, receiver |-> "r1"]>>,
      fee |-> ProposalFee,
      outlay_index_to_tx_out_index |-> {<<0, 0>>},
      outlay_confirmation_numbers |-> <<"c1">>,
      tombstone_block |-> tb] : ov \in Values, tb \in Heights}

OutputIndices == 0..1

\* find_map over outlay_index_to_tx_out_index: the outlay placed at output_index.
find_outlay_index(tx_proposal, output_index) ==
    LET ks == {kv[1] : kv \in {x \in tx_proposal.outlay_index_to_tx_out_index :
                                    x[2] = output_index}}
    IN  IF ks = {} THEN None ELSE Some(Min(ks))

\* (value, proof, outlay_receiver) of the output at output_index.
minted_value_proof_receiver(tx_proposal, output_index) ==
    LET total_input_value == SumValues(tx_proposal.utxos)
        total_output_value == SumValues(tx_proposal.outlays)
        change_value == wrapping_sub(wrapping_sub(total_input_value, total_output_value),
                                     tx_proposal.fee)
        outlay_index == find_outlay_index(tx_proposal, output_index)
    IN  IF is_some(outlay_index)
        THEN LET outlay == tx_proposal.outlays[unwrap(outlay_index) + 1]
             IN  <<outlay.value, outlay_index, Some(outlay.receiver)>>
        ELSE <<change_value, None, None>>

\* A faulty variant of the closure below: the status insert is left out.
create_minted_inserts_no_status(db, account_id_hex, txo_id, tx_proposal, value, encoded_proof) ==
    insert_txo(db, [txo_id_hex |-> txo_id,
                    value |-> as_i64(value),
                    subaddress_index |-> None,
                    key_image |-> None,
                    received_block_height |-> None,
                    pending_tombstone_block_height |-> Some(tx_proposal.tombstone_block),
                    spent_block_height |-> None,
                    proof |-> encoded_proof])

\* A faulty variant of the closure below: the status row is created unspent.
create_minted_inserts_unspent(db, account_id_hex, txo_id, tx_proposal, value, encoded_proof) ==
    LET ins == create_minted_inserts_no_status(db, account_id_hex, txo_id, tx_proposal,
                                               value, encoded_proof)
    IN  IF ~is_ok(ins) \/ is_none(account_id_hex) THEN ins
        ELSE insert_account_txo_status(ins.db,
                [account_id_hex |-> unwrap(account_id_hex), txo_id_hex |-> txo_id,
                 txo_status |-> TXO_UNSPENT, txo_type |-> TXO_MINTED])

\* A faulty variant of the closure below: a Txo row that exists is replaced.
create_minted_inserts_replacing(db, account_id_hex, txo_id, tx_proposal, value, encoded_proof) ==
    LET rows == RowsOf(db.txos, txo_id)
        cleared == [db EXCEPT !.txos =
                       [i \in DOMAIN db.txos |->
                           IF i \in rows
                           THEN [db.txos[i] EXCEPT
                                   !.value = as_i64(value),
                                   !.subaddress_index = None,
                                   !.key_image = None,
                                   !.received_block_height = None,
                                   !.pending_tombstone_block_height =
                                       Some(tx_proposal.tombstone_block),
                                   !.proof = encoded_proof]
                           ELSE db.txos[i]]]
    IN  IF rows = {}
        THEN create_minted_inserts_no_status(db, account_id_hex, txo_id, tx_proposal,
                                             value, encoded_proof)
        ELSE IF write_fails(db) THEN Err(db, "StoreError")
        ELSE Ok(after_write(cleared), None)

\* The closure of the transaction: the Txo insert, then the status insert
\* when an account id is given.
create_minted_inserts(db, account_id_hex, txo_id, tx_proposal, value, encoded_proof) ==
    LET new_txo == [txo_id_hex |-> txo_id,
                    value |-> as_i64(value),
                    subaddress_index |-> None,
                    key_image |-> None,
                    received_block_height |-> None,
                    pending_tombstone_block_height |-> Some(tx_proposal.tombstone_block),
                    spent_block_height |-> None,
                    proof |-> encoded_proof]
        ins == insert_txo(db, new_txo)
    IN  IF ~is_ok(ins) THEN ins
        ELSE IF is_some(account_id_hex)
        THEN insert_account_txo_status(ins.db,
                [account_id_hex |-> unwrap(account_id_hex), txo_id_hex |-> txo_id,
                 txo_status |-> TXO_SECRETED, txo_type |-> TXO_MINTED])
        ELSE Ok(ins.db, None)

create_minted(db, account_id_hex, output, tx_proposal, output_index) ==
    LET txo_id == TxoID(output)
        total_output_value == SumValues(tx_proposal.outlays)
        vpr == minted_value_proof_receiver(tx_proposal, output_index)
        value == vpr[1]
        proof == vpr[2]
        outlay_receiver == vpr[3]
        transaction_txo_type == IF is_some(outlay_receiver) THEN OUTPUT ELSE CHANGE
        encoded_proof ==
            IF is_some(proof)
            THEN Some(tx_proposal.outlay_confirmation_numbers[unwrap(proof) + 1])
            ELSE None
        r == transaction(db, create_minted_inserts(db, account_id_hex, txo_id,
                                tx_proposal, value, encoded_proof))
    IN  IF is_ok(r)
        THEN Ok(r.db, <<outlay_receiver, txo_id, as_i64(total_output_value),
                        transaction_txo_type>>)
        ELSE r

(***************************************************************************)
(* Txo::update_to_pending                                                  *)
(***************************************************************************)
\* Account::get_by_txo_id: the accounts the lookup by txo id may return, the
\* accounts that have a status row for the Txo.
Account_get_by_txo_id(db, txo_id) ==
    {r.account_id_hex : r \in {x \in db.statuses : x.txo_id_hex = txo_id}}

\* A faulty variant of update_to_pending: the rows of all accounts for the
\* Txo are set pending.
update_to_pending_all_accounts(db, txo_id, account) ==
    IF is_none(account) THEN Err(db, "AccountNotFound")
    ELSE IF write_fails(db) THEN Err(db, "StoreError")
    ELSE Ok([after_write(db) EXCEPT !.statuses =
                {IF r.txo_id_hex = txo_id THEN [r EXCEPT !.txo_status = TXO_PENDING] ELSE r :
                    r \in db.statuses}],
            None)

\* account is what Account::get_by_txo_id returned: Some(account), or None
\* when no account has a status row for the Txo.
update_to_pending(db, txo_id, account) ==
    transaction(db,
        IF is_none(account) THEN Err(db, "AccountNotFound")
        ELSE set_status(db, unwrap(account), txo_id, TXO_PENDING))

(***************************************************************************)
(* Account::update_spent_and_increment_next_block                          *)
(***************************************************************************)
\* The Txos of the account whose key image is among key_images get the
\* spent block height and the status spent; the value is the next_block the
\* account's row is left with.
update_spent_and_increment_next_block(db, account_id_hex, spent_block_height, key_images) ==
    LET hit == {i \in DOMAIN db.txos :
                    /\ is_some(db.txos[i].key_image)
                    /\ unwrap(db.txos[i].key_image) \in key_images
                    /\ StatusRows(db.statuses, account_id_hex,
                                  db.txos[i].txo_id_hex) # {}}
        ids == {db.txos[i].txo_id_hex : i \in hit}
    IN  Ok([db EXCEPT
              !.txos = [i \in DOMAIN db.txos |->
                          IF i \in hit
                          THEN [db.txos[i] EXCEPT
                                  !.spent_block_height = Some(spent_block_height)]
                          ELSE db.txos[i]],
              !.statuses = {IF r.account_id_hex = account_id_hex /\ r.txo_id_hex \in ids
                            THEN [r EXCEPT !.txo_status = TXO_SPENT] ELSE r :
                            r \in db.statuses}],
           spent_block_height + 1)

(***************************************************************************)
(* Txo::list_for_account and Txo::list_by_status                           *)
(***************************************************************************)
\* The Txo rows joined with the status rows of the account.
list_for_account(db, account_id_hex) ==
    Ok(db, {<<db.txos[j[1]], j[2]>> : j \in {x \in joined_rows(db) :
                                             x[2].account_id_hex = account_id_hex}})

\* One of the five queries of list_by_status: the Txo rows the account
\* holds with a status.
txos_with_status(db, account_id_hex, txo_status) ==
    {db.txos[j[1]] : j \in {x \in joined_rows(db) :
                                /\ x[2].account_id_hex = account_id_hex
                                /\ x[2].txo_status = txo_status}}

\* A faulty variant of list_by_status: the spent Txos are listed as unspent too.
list_by_status_spent_as_unspent(db, account_id_hex) ==
    Ok(db, [st \in {TXO_UNSPENT, TXO_PENDING, TXO_SPENT, TXO_SECRETED, TXO_ORPHANED} |->
              IF st = TXO_UNSPENT
              THEN txos_with_status(db, account_id_hex, TXO_UNSPENT)
                       \cup txos_with_status(db, account_id_hex, TXO_SPENT)
              ELSE txos_with_status(db, account_id_hex, st)])

\* A faulty variant of list_by_status: the orphaned Txos are left out.
list_by_status_no_orphaned(db, account_id_hex) ==
    Ok(db, [st \in {TXO_UNSPENT, TXO_PENDING, TXO_SPENT, TXO_SECRETED, TXO_ORPHANED} |->
              IF st = TXO_ORPHANED THEN {}
              ELSE txos_with_status(db, account_id_hex, st)])

\* The map from each of the five statuses to the Txo rows of that status.
list_by_status(db, account_id_hex) ==
    Ok(db, [st \in {TXO_UNSPENT, TXO_PENDING, TXO_SPENT, TXO_SECRETED, TXO_ORPHANED} |->
              txos_with_status(db, account_id_hex, st)])

(***************************************************************************)
(* Txo::select_unspent_txos_for_value                                      *)
(***************************************************************************)
\* args: the values the message of an error is formatted with, each under
\* the name of the variable it is taken from.
SelOk(v) == [err |-> "", val |-> v, args |-> {}]
SelErr(e) == [err |-> e, val |-> << >>, args |-> {}]
SelErrWith(e, args) == [err |-> e, val |-> << >>, args |-> args]

RECURSIVE SumTake(_, _)
\* The sum of the values of the first n entries (iter().take(n).sum()).
SumTake(seq, n) ==
    IF n = 0 \/ seq = << >> THEN 0 ELSE Head(seq).value + SumTake(Tail(seq), n - 1)

\* A faulty variant of the query below: the status is not looked at.
spendable_rows_any_status(db, account_id_hex, max_spendable_value) ==
    {i \in DOMAIN db.txos :
        /\ \E r \in db.statuses :
              /\ r.txo_id_hex = db.txos[i].txo_id_hex
              /\ r.account_id_hex = account_id_hex
        /\ is_some(db.txos[i].subaddress_index)
        /\ is_some(db.txos[i].key_image)
        /\ (is_some(max_spendable_value)
                => db.txos[i].value <= unwrap(max_spendable_value))}

\* The query: the Txos joined with the account's unspent status rows that
\* have a subaddress index and a key image and a value within the cap.
spendable_rows(db, account_id_hex, max_spendable_value) ==
    {i \in DOMAIN db.txos :
        /\ \E r \in db.statuses :
              /\ r.txo_id_hex = db.txos[i].txo_id_hex
              /\ r.account_id_hex = account_id_hex
              /\ r.txo_status = TXO_UNSPENT
        /\ is_some(db.txos[i].subaddress_index)
        /\ is_some(db.txos[i].key_image)
        /\ (is_some(max_spendable_value)
                => db.txos[i].value <= unwrap(max_spendable_value))}

\* order_by(value.desc()): the arrangements of the rows by descending value
\* (rows of equal value come in an order the store chooses).
OrderedByValueDesc(t, S) ==
    {[k \in 1..Cardinality(S) |-> t[f[k]]] :
        f \in {g \in [1..Cardinality(S) -> S] :
                  /\ \A j, k \in 1..Cardinality(S) : j # k => g[j] # g[k]
                  /\ \A j, k \in 1..Cardinality(S) :
                        j < k => t[g[j]].value >= t[g[k]].value}}

\* A faulty variant of the check below: nothing is checked.
select_post_check_off(selected_utxos) == SelOk(selected_utxos)

\* The check that follows the loop.
select_post_check(selected_utxos) ==
    IF selected_utxos = << >> \/ Len(selected_utxos) > MAX_INPUTS
    THEN SelErr("InsufficientFunds: Logic error")
    ELSE SelOk(selected_utxos)

\* The cap inside the loop: beyond MAX_INPUTS the first selected is removed.
select_cap(selected_utxos) ==
    IF Len(selected_utxos) > MAX_INPUTS THEN Tail(selected_utxos) ELSE selected_utxos

RECURSIVE select_loop_largest_first(_, _, _, _)
\* A faulty variant of the loop below: it takes the first (largest) Txo.
select_loop_largest_first(spendable_txos, selected_utxos, total, target_value) ==
    IF total >= target_value THEN SelOk(selected_utxos)
    ELSE IF spendable_txos = << >>
    THEN SelErrWith("InsufficientFunds: Not enough Txos",
                    {<<"target_value", target_value>>})
    ELSE select_loop_largest_first(Tail(spendable_txos),
                                   select_cap(Append(selected_utxos, Head(spendable_txos))),
                                   total + Head(spendable_txos).value,
                                   target_value)

RECURSIVE select_loop(_, _, _, _)
\* The loop: pop the last (smallest) Txo until total reaches target_value.
select_loop(spendable_txos, selected_utxos, total, target_value) ==
    IF total >= target_value THEN SelOk(selected_utxos)
    ELSE IF spendable_txos = << >>
    THEN SelErrWith("InsufficientFunds: Not enough Txos",
                    {<<"target_value", target_value>>})
    ELSE LET next_utxo == spendable_txos[Len(spendable_txos)]
         IN  select_loop(SubSeq(spendable_txos, 1, Len(spendable_txos) - 1),
                         select_cap(Append(selected_utxos, next_utxo)),
                         total + next_utxo.value,
                         target_value)

\* A faulty variant of the function below: the two errors of a target above
\* the spendable maximum are exchanged.
select_from_spendable_swapped(spendable_txos, target_value) ==
    IF spendable_txos = << >> THEN SelErr("NoSpendableTxos")
    ELSE
    LET max_spendable_in_wallet == SumTake(spendable_txos, MAX_INPUTS)
    IN  IF target_value > max_spendable_in_wallet
        THEN IF SumTake(spendable_txos, Len(spendable_txos)) >= target_value
             THEN SelErrWith("InsufficientFundsUnderMaxSpendable",
                             {<<"max_spendable_in_wallet", max_spendable_in_wallet>>,
                              <<"target_value", target_value>>})
             ELSE SelErr("InsufficientFundsFragmentedTxos")
        ELSE LET l == select_loop(spendable_txos, << >>, 0, target_value)
             IN  IF l.err # "" THEN l ELSE select_post_check(l.val)

\* The function after its query: spendable_txos is the loaded vector.
select_from_spendable(spendable_txos, target_value) ==
    IF spendable_txos = << >> THEN SelErr("NoSpendableTxos")
    ELSE
    LET max_spendable_in_wallet == SumTake(spendable_txos, MAX_INPUTS)
    IN  IF target_value > max_spendable_in_wallet
        THEN IF SumTake(spendable_txos, Len(spendable_txos)) >= target_value
             THEN SelErr("InsufficientFundsFragmentedTxos")
             ELSE SelErrWith("InsufficientFundsUnderMaxSpendable",
                             {<<"max_spendable_in_wallet", max_spendable_in_wallet>>,
                              <<"target_value", target_value>>})
        ELSE LET l == select_loop(spendable_txos, << >>, 0, target_value)
             IN  IF l.err # "" THEN l ELSE select_post_check(l.val)

\* A faulty variant of the function below: the Txos it selects are marked
\* pending for the account.
select_unspent_txos_for_value_marking_pending(db, account_id_hex, target_value, max_spendable_value) ==
    {[err |-> s.err,
      db |-> [db EXCEPT !.statuses =
                 {IF /\ r.account_id_hex = account_id_hex
                     /\ \E k \in DOMAIN s.val : s.val[k].txo_id_hex = r.txo_id_hex
                  THEN [r EXCEPT !.txo_status = TXO_PENDING] ELSE r : r \in db.statuses}],
      val |-> s.val, args |-> s.args] :
        s \in {select_from_spendable(spendable_txos, target_value) :
                  spendable_txos \in OrderedByValueDesc(db.txos,
                      spendable_rows(db, account_id_hex, max_spendable_value))}}

\* The results the call may give, one for each order of the loaded rows,
\* each with the store as the call leaves it: the function only loads.
select_unspent_txos_for_value(db, account_id_hex, target_value, max_spendable_value) ==
    {[err |-> s.err, db |-> db, val |-> s.val, args |-> s.args] :
        s \in {select_from_spendable(spendable_txos, target_value) :
                  spendable_txos \in OrderedByValueDesc(db.txos,
                      spendable_rows(db, account_id_hex, max_spendable_value))}}

(***************************************************************************)
(* The store as a state machine: one action for each operation, called     *)
(* with any arguments. A call is a tuple of its arguments, the first being *)
(* the injected store fault f: the f-th write of the call fails with a     *)
(* store error (0: the store does not fail).                               *)
(***************************************************************************)
\* Writes of one call that a store fault may hit.
MaxFault == 2

Faults == 0..MaxFault
TxoIds == {TxoID(o) : o \in TxOuts}
KeyImageOf(txo_id) == KeyImage(CHOOSE o \in TxOuts : TxoID(o) = txo_id)
Targets == 0..(MaxValue + 1)

NoSelection == [err |-> "none", val |-> << >>, args |-> {}]
Idle == [a \in Accounts |-> [at |-> "idle", call |-> << >>, tries |-> 0, got |-> << >>]]

DB(f) == Conn(txos, account_txo_statuses, f)

Commit(r) ==
    /\ txos' = r.db.txos
    /\ account_txo_statuses' = r.db.statuses

\* <<f, txo, subaddress_index, key_image, value, received_block_height, account_id_hex>>
CreateReceivedCalls ==
    {<<f, o, sub, ki, v, h, a>> :
        f \in Faults, o \in TxOuts, sub \in OptionOf(SubaddressIndices),
        ki \in OptionOf(KeyImages), v \in Values, h \in Heights, a \in Accounts}
call_create_received(c) == create_received(DB(c[1]), c[2], c[3], c[4], c[5], c[6], c[7])

\* <<f, account_id_hex, output, tx_proposal, output_index>>
CreateMintedCalls ==
    {<<f, a, o, p, output_index>> :
        f \in Faults, a \in OptionOf(Accounts), o \in TxOuts, p \in Proposals,
        output_index \in OutputIndices}
call_create_minted(c) == create_minted(DB(c[1]), c[2], c[3], c[4], c[5])

\* <<f, self (the row's position), account_id_hex, subaddress_index, key_image, height>>
UpdateReceivedCalls ==
    {<<f, i, a, sub, ki, h>> :
        f \in Faults, i \in DOMAIN txos, a \in Accounts,
        sub \in OptionOf(SubaddressIndices), ki \in OptionOf(KeyImages), h \in Heights}
call_update_received(c) == update_received(DB(c[1]), txos[c[2]], c[3], c[4], c[5], c[6])

\* <<f, self (the row's position), subaddress_index, key_image, height>>
UpdateToSpendableCalls ==
    {<<f, i, sub, ki, h>> :
        f \in {0}, i \in DOMAIN txos, sub \in OptionOf(SubaddressIndices),
        ki \in OptionOf(KeyImages), h \in Heights}
call_update_to_spendable(c) == update_to_spendable(DB(c[1]), txos[c[2]], c[3], c[4], c[5])

\* <<f, txo_id, the account Account::get_by_txo_id returns>>
UpdateToPendingCalls ==
    {<<f, txo_id, account>> :
        f \in Faults, txo_id \in TxoIds, account \in OptionOf(Accounts)}
call_update_to_pending(c) == update_to_pending(DB(c[1]), c[2], c[3])
lookup_gives(c) ==
    IF Account_get_by_txo_id(DB(0), c[2]) = {} THEN is_none(c[3])
    ELSE is_some(c[3]) /\ unwrap(c[3]) \in Account_get_by_txo_id(DB(0), c[2])

\* <<account_id_hex, spent_block_height, key_images>>
UpdateSpentCalls ==
    {<<a, h, {k}>> : a \in Accounts, h \in Heights, k \in KeyImages}
call_update_spent(c) == update_spent_and_increment_next_block(DB(0), c[1], c[2], c[3])

\* <<account_id_hex, target_value, max_spendable_value>>
SelectCalls ==
    {<<a, t, cap>> : a \in Accounts, t \in Targets, cap \in OptionOf(Values)}
call_select(c) == select_unspent_txos_for_value(DB(0), c[1], c[2], c[3])

StoreInit ==
    /\ txos = << >>
    /\ account_txo_statuses = {}
    /\ received_calls = {}
    /\ minted_unowned = {}

Init ==
    /\ StoreInit
    /\ candidates = << >>
    /\ target = 0
    /\ selection = NoSelection
    /\ pc = Idle

CreateReceived ==
    \E c \in CreateReceivedCalls :
        LET r == call_create_received(c)
        IN  /\ Commit(r)
            /\ received_calls' = IF r.err = "StoreError" THEN received_calls
                                 ELSE received_calls \cup {<<c[7], TxoID(c[2])>>}
            /\ UNCHANGED <<minted_unowned, candidates, target, selection, pc>>

CreateMinted ==
    \E c \in CreateMintedCalls :
        LET r == call_create_minted(c)
        IN  /\ Commit(r)
            /\ minted_unowned' = IF is_ok(r) /\ is_none(c[2])
                                 THEN minted_unowned \cup {TxoID(c[3])}
                                 ELSE minted_unowned
            /\ UNCHANGED <<received_calls, candidates, target, selection, pc>>

UpdateReceived ==
    \E c \in UpdateReceivedCalls :
        /\ Commit(call_update_received(c))
        /\ UNCHANGED <<received_calls, minted_unowned, candidates, target, selection, pc>>

UpdateToSpendable ==
    \E c \in UpdateToSpendableCalls :
        /\ Commit(call_update_to_spendable(c))
        /\ UNCHANGED <<received_calls, minted_unowned, candidates, target, selection, pc>>

UpdateToPending ==
    \E c \in UpdateToPendingCalls :
        /\ lookup_gives(c)
        /\ Commit(call_update_to_pending(c))
        /\ UNCHANGED <<received_calls, minted_unowned, candidates, target, selection, pc>>

UpdateSpent ==
    \E c \in UpdateSpentCalls :
        /\ Commit(call_update_spent(c))
        /\ UNCHANGED <<received_calls, minted_unowned, candidates, target, selection, pc>>

SelectUnspent ==
    \E c \in SelectCalls :
    \E r \in call_select(c) :
        /\ Commit(r)
        /\ UNCHANGED <<received_calls, minted_unowned, candidates, target, selection, pc>>

Next ==
    \/ CreateReceived
    \/ CreateMinted
    \/ UpdateReceived
    \/ UpdateToSpendable
    \/ UpdateToPending
    \/ UpdateSpent
    \/ SelectUnspent

Spec == Init /\ [][Next]_vars

(***************************************************************************)
(* The status of an (account, Txo) pair, and the transitions of the state  *)
(* machine.                                                                *)
(***************************************************************************)
status_of(s, account_id_hex, txo_id_hex) ==
    IF StatusRows(s, account_id_hex, txo_id_hex) = {} THEN "absent"
    ELSE (CHOOSE r \in StatusRows(s, account_id_hex, txo_id_hex) : TRUE).txo_status

ValidTransitions ==
    {<<TXO_UNSPENT, TXO_PENDING>>, <<TXO_PENDING, TXO_SPENT>>,
     <<TXO_ORPHANED, TXO_UNSPENT>>, <<TXO_SECRETED, TXO_UNSPENT>>}

\* C2: once the status of an (account, Txo) pair is spent, no step of the
\* store changes it to anything else.
C2_SpentIsFinal ==
    [][\A a \in Accounts, t \in TxoIds :
          status_of(account_txo_statuses, a, t) = TXO_SPENT
              => status_of(account_txo_statuses', a, t) = TXO_SPENT]_vars

\* C3: every change of the status of an existing (account, Txo) pair is
\* unspent to pending, pending to spent, orphaned to unspent or secreted to
\* unspent.
C3_OnlyValidTransitions ==
    [][\A a \in Accounts, t \in TxoIds :
          LET old == status_of(account_txo_statuses, a, t)
              new == status_of(account_txo_statuses', a, t)
          IN  (old # "absent" /\ new # old) => <<old, new>> \in ValidTransitions]_vars

\* C4: whatever create_received calls were made, an output has at most one
\* Txo row and an (account, output) pair at most one status row, and every
\* account that called create_received for an output has exactly one
\* status row for it, beside exactly one Txo row of the output.
C4_OneTxoRowOneStatusRowPerAccount ==
    \A t \in TxoIds :
        /\ Cardinality(RowsOf(txos, t)) <= 1
        /\ \A a \in Accounts :
              /\ Cardinality(StatusRows(account_txo_statuses, a, t)) <= 1
              /\ <<a, t>> \in received_calls =>
                    /\ Cardinality(RowsOf(txos, t)) = 1
                    /\ Cardinality(StatusRows(account_txo_statuses, a, t)) = 1

\* C4 witness: both accounts called create_received for the same output.
C4_Witness ==
    /\ received_calls = {<<"a1", "t1">>, <<"a2", "t1">>}
    /\ Len(txos) = 1
    /\ Cardinality(account_txo_statuses) = 2

\* C5: every Txo a successful select_unspent_txos_for_value returns is a row
\* of the table whose status for the account is unspent, with a subaddress
\* index, a key image and a value within the cap when one is given.
C5_SelectedAreSpendable ==
    \A c \in SelectCalls : \A r \in call_select(c) :
        is_ok(r) =>
            \A k \in DOMAIN r.val :
                /\ r.val[k].id \in DOMAIN txos
                /\ r.val[k] = txos[r.val[k].id]
                /\ status_of(account_txo_statuses, c[1], r.val[k].txo_id_hex)
                       = TXO_UNSPENT
                /\ is_some(r.val[k].subaddress_index)
                /\ is_some(r.val[k].key_image)
                /\ is_some(c[3]) => r.val[k].value <= unwrap(c[3])

\* C5 witness: a selection succeeds for one account while the same Txo is
\* not unspent for the other account.
C5_Witness ==
    \E c \in SelectCalls : \E r \in call_select(c) :
        /\ is_ok(r)
        /\ r.val # << >>
        /\ \E a \in Accounts :
              status_of(account_txo_statuses, a, r.val[1].txo_id_hex)
                  \in {TXO_PENDING, TXO_SPENT, TXO_SECRETED, TXO_ORPHANED}

\* C7: create_received is idempotent: when a call succeeds, a second call
\* with the same arguments succeeds, returns the same TxoID and leaves both
\* tables as the first call left them.
C7_CreateReceivedIdempotent ==
    \A c \in CreateReceivedCalls :
        (c[1] = 0 /\ is_ok(call_create_received(c))) =>
            LET first == call_create_received(c)
                second == create_received(first.db, c[2], c[3], c[4], c[5], c[6], c[7])
            IN  /\ is_ok(second)
                /\ second.val = first.val
                /\ second.db.txos = first.db.txos
                /\ second.db.statuses = first.db.statuses

\* The tables after a call are the tables before it.
tables_unchanged(r) ==
    /\ r.db.txos = txos
    /\ r.db.statuses = account_txo_statuses

\* C8: create_received, create_minted, update_received and update_to_pending
\* are all-or-nothing: a call that returns an error, a store error after an
\* earlier write of the call included, leaves both tables as they were.
C8_ErrorLeavesTablesUnchanged ==
    /\ \A c \in CreateReceivedCalls :
          ~is_ok(call_create_received(c)) => tables_unchanged(call_create_received(c))
    /\ \A c \in CreateMintedCalls :
          ~is_ok(call_create_minted(c)) => tables_unchanged(call_create_minted(c))
    /\ \A c \in UpdateReceivedCalls :
          ~is_ok(call_update_received(c)) => tables_unchanged(call_update_received(c))
    /\ \A c \in UpdateToPendingCalls :
          (lookup_gives(c) /\ ~is_ok(call_update_to_pending(c)))
              => tables_unchanged(call_update_to_pending(c))

\* C8 witness: the store fails at the second write of an update_received,
\* after the first write of the call succeeded.
C8_Witness ==
    \E c \in UpdateReceivedCalls :
        /\ c[1] = 2
        /\ call_update_received(c).err = "StoreError"

\* C10 as claimed: every Txo row has at least one status row.
C10_EveryTxoHasStatusRow ==
    \A i \in DOMAIN txos :
        \E r \in account_txo_statuses : r.txo_id_hex = txos[i].txo_id_hex

\* C10 amended: every Txo row has at least one status row, except the rows
\* create_minted inserted without an account id.
C10_EveryOwnedTxoHasStatusRow ==
    \A i \in DOMAIN txos :
        \/ \E r \in account_txo_statuses : r.txo_id_hex = txos[i].txo_id_hex
        \/ txos[i].txo_id_hex \in minted_unowned

\* C10 witness: a Txo row minted with an account id, and its status row.
C10_Witness ==
    /\ txos # << >>
    /\ minted_unowned = {}
    /\ \E r \in account_txo_statuses :
          r.txo_id_hex = txos[1].txo_id_hex /\ r.txo_type = TXO_MINTED

(***************************************************************************)
(* Coin selection alone: the selection applied to a loaded vector of       *)
(* candidates, long enough for the cap of MAX_INPUTS to act.               *)
(***************************************************************************)
\* The most candidates, the largest candidate value, the largest target.
MaxCandidates == 18
MaxSelValue == 2
MaxTarget == 20

SelValues == 1..MaxSelValue
SelTargets == 0..MaxTarget

RECURSIVE CountFrom(_, _)
\* The number of candidates of value v or more, cnt[w] being that of value w.
CountFrom(cnt, v) ==
    IF v > MaxSelValue THEN 0 ELSE cnt[v] + CountFrom(cnt, v + 1)

\* The loaded vector with cnt[v] candidates of value v, by descending value.
CandidatesOf(cnt) ==
    [k \in 1..CountFrom(cnt, 1) |->
        [id |-> k,
         value |-> CHOOSE v \in SelValues :
                       CountFrom(cnt, v + 1) < k /\ k <= CountFrom(cnt, v)]]

CandidateVectors ==
    {CandidatesOf(cnt) :
        cnt \in {c \in [SelValues -> 0..MaxCandidates] :
                    CountFrom(c, 1) <= MaxCandidates}}

SelInit ==
    /\ StoreInit
    /\ pc = Idle
    /\ candidates \in CandidateVectors
    /\ target \in SelTargets
    /\ selection = NoSelection

Select ==
    /\ selection = NoSelection
    /\ selection' = select_from_spendable(candidates, target)
    /\ UNCHANGED <<txos, account_txo_statuses, received_calls, minted_unowned,
                   candidates, target, pc>>

SelNext == Select

SelSpec == SelInit /\ [][SelNext]_vars

\* C1: a selection that returns Ok returns Txos whose values sum to the
\* target value or more.
C1_SelectedSumReachesTarget ==
    is_ok(selection) => SumTake(selection.val, Len(selection.val)) >= target

\* C6: a selection that returns Ok returns at least one and at most
\* MAX_INPUTS Txos.
C6_SelectedCountWithinCap ==
    is_ok(selection) =>
        /\ Len(selection.val) >= 1
        /\ Len(selection.val) <= MAX_INPUTS

\* C6 witness: more than MAX_INPUTS candidates were popped and the cap
\* dropped one; MAX_INPUTS Txos are returned.
C6_Witness ==
    /\ is_ok(selection)
    /\ Len(candidates) > MAX_INPUTS
    /\ target > SumTake(SubSeq(candidates, Len(candidates) - MAX_INPUTS + 1,
                               Len(candidates)), MAX_INPUTS)
    /\ Len(selection.val) = MAX_INPUTS

(***************************************************************************)
(* Two create_received calls for the same output, one by each account,     *)
(* running concurrently. A call reads with Txo::get when its transaction   *)
(* begins and writes afterwards; the store checks its uniqueness           *)
(* constraints at the write, against the rows committed by then. A call    *)
(* whose write fails returns the error, its transaction rolled back.       *)
(***************************************************************************)
\* The attempts one call may take.
MaxTries == 2

RaceOutput == "o1"

\* <<f, txo, subaddress_index, key_image, value, received_block_height, account_id_hex>>
RaceCalls(a) ==
    {c \in CreateReceivedCalls : c[1] = 0 /\ c[2] = RaceOutput /\ c[7] = a}

\* What a call holds once it has read: the result of Txo::get.
reading(c, tries) ==
    LET g == get(DB(0), c[7], TxoID(c[2]))
    IN  [at |-> "read", call |-> c, tries |-> tries, got |-> [err |-> g.err, val |-> g.val]]

\* The writes of the call, given what it read, on the tables as they are now.
race_write(p) ==
    LET c == p.call
        g == [err |-> p.got.err, db |-> DB(0), val |-> p.got.val]
        r == transaction(DB(0),
                create_received_match(DB(0), g, TxoID(c[2]), c[3], c[4], c[5], c[6], c[7]))
    IN  IF is_ok(r) THEN Ok(r.db, TxoID(c[2])) ELSE r

RaceInit ==
    /\ StoreInit
    /\ candidates = << >>
    /\ target = 0
    /\ selection = NoSelection
    /\ pc = Idle

RaceBegin(a) ==
    /\ pc[a].at = "idle"
    /\ \E c \in RaceCalls(a) : pc' = [pc EXCEPT ![a] = reading(c, 1)]
    /\ UNCHANGED <<txos, account_txo_statuses, received_calls, minted_unowned,
                   candidates, target, selection>>

RaceWrite(a) ==
    /\ pc[a].at = "read"
    /\ LET r == race_write(pc[a])
       IN  /\ Commit(r)
           /\ received_calls' = received_calls \cup {<<a, TxoID(pc[a].call[2])>>}
           /\ pc' = [pc EXCEPT ![a] =
                        [at |-> IF is_ok(r) THEN "done" ELSE "failed",
                         call |-> pc[a].call, tries |-> pc[a].tries,
                         got |-> [err |-> r.err, val |-> None]]]
    /\ UNCHANGED <<minted_unowned, candidates, target, selection>>

\* The caller (the sync driver) calls again after an error.
RaceRetry(a) ==
    /\ pc[a].at = "failed"
    /\ pc[a].tries < MaxTries
    /\ pc' = [pc EXCEPT ![a] = reading(pc[a].call, pc[a].tries + 1)]
    /\ UNCHANGED <<txos, account_txo_statuses, received_calls, minted_unowned,
                   candidates, target, selection>>

RaceNext ==
    \E a \in Accounts :
        \/ RaceBegin(a)
        \/ RaceWrite(a)
        \/ RaceRetry(a)

RaceSpec == RaceInit /\ [][RaceNext]_vars

\* C9: in every interleaving of the two calls the output never has two Txo
\* rows, a call that lost the race is called again, and once both calls
\* have returned Ok there is exactly one Txo row and each account has
\* exactly one status row for the output.
C9_RaceKeepsOneTxoRow ==
    /\ Cardinality(RowsOf(txos, TxoID(RaceOutput))) <= 1
    /\ \A a \in Accounts :
          /\ pc[a].at = "failed" => pc[a].tries < MaxTries
          /\ pc[a].at = "failed" => pc[a].got.err = "UniqueViolation"
    /\ (\A a \in Accounts : pc[a].at = "done") =>
          /\ Cardinality(RowsOf(txos, TxoID(RaceOutput))) = 1
          /\ \A a \in Accounts :
                Cardinality(StatusRows(account_txo_statuses, a, TxoID(RaceOutput))) = 1

\* C9 witness: both calls read before either wrote, one lost the race and
\* was called again, and both have returned Ok.
C9_Witness ==
    /\ \A a \in Accounts : pc[a].at = "done"
    /\ \E a \in Accounts : pc[a].tries = 2

(***************************************************************************)
(* Txo::are_all_spent                                                      *)
(***************************************************************************)
\* The elements of a slice of ids.
Elems(seq) == {seq[k] : k \in DOMAIN seq}

\* The slices of distinct txo ids a caller may pass.
TxoIdLists ==
    {ids \in UNION {[1..n -> TxoIds] : n \in 0..Cardinality(TxoIds)} :
        \A j, k \in DOMAIN ids : j # k => ids[j] # ids[k]}

\* The count of the joined rows that are among txo_ids and spent, compared
\* with the length of txo_ids.
are_all_spent(db, txo_ids) ==
    LET txos_count == Cardinality({j \in joined_rows(db) :
                                     /\ db.txos[j[1]].txo_id_hex \in Elems(txo_ids)
                                     /\ j[2].txo_status = TXO_SPENT})
    IN  Ok(db, txos_count = Len(txo_ids))

\* The accounts that hold a Txo: those with a status row for it.
holders(txo_id_hex) ==
    {r \in account_txo_statuses : r.txo_id_hex = txo_id_hex}

\* C11: are_all_spent never returns true while a named Txo is spent for no
\* account, and never returns false when every named Txo is held by some
\* account and spent for every account that holds it.
C11_AreAllSpentExact ==
    \A ids \in TxoIdLists :
        LET answer == are_all_spent(DB(0), ids).val
        IN  /\ answer =>
                  \A t \in Elems(ids) : \E r \in holders(t) : r.txo_status = TXO_SPENT
            /\ (\A t \in Elems(ids) :
                    /\ holders(t) # {}
                    /\ \A r \in holders(t) : r.txo_status = TXO_SPENT) => answer

(***************************************************************************)
(* The errors of the coin selection.                                       *)
(***************************************************************************)
\* The sum of the values of the candidates at positions lo..hi.
RangeSum(lo, hi) ==
    SumTake(SubSeq(candidates, lo, hi), Len(candidates))

\* The sum of the MAX_INPUTS largest candidate values, and of all of them.
LargestSum ==
    RangeSum(1, IF Len(candidates) < MAX_INPUTS THEN Len(candidates) ELSE MAX_INPUTS)
AllSum == RangeSum(1, Len(candidates))

\* C12: the selection of an empty candidate set fails with NoSpendableTxos;
\* that of a non-empty set whose MAX_INPUTS largest values sum to less than
\* the target fails with InsufficientFundsFragmentedTxos when all values
\* together cover the target and with InsufficientFundsUnderMaxSpendable
\* when they do not.
C12_SelectionErrorKinds ==
    selection # NoSelection =>
        /\ candidates = << >> => selection.err = "NoSpendableTxos"
        /\ (candidates # << >> /\ LargestSum < target /\ AllSum >= target)
               => selection.err = "InsufficientFundsFragmentedTxos"
        /\ (candidates # << >> /\ LargestSum < target /\ AllSum < target)
               => selection.err = "InsufficientFundsUnderMaxSpendable"

\* C12 witness: more than MAX_INPUTS candidates cover the target together,
\* the MAX_INPUTS largest do not, and the selection has failed.
C12_Witness ==
    /\ selection # NoSelection
    /\ Len(candidates) > MAX_INPUTS
    /\ LargestSum < target
    /\ AllSum >= target
    /\ ~is_ok(selection)

(***************************************************************************)
(* The dust sweep of the coin selection.                                   *)
(***************************************************************************)
\* The k smallest candidates: the last k of the descending vector.
Smallest(k) == SubSeq(candidates, Len(candidates) - k + 1, Len(candidates))

\* k is the least number of smallest candidates whose values reach the target.
LeastCover(k) ==
    /\ k \in 1..Len(candidates)
    /\ SumTake(Smallest(k), k) >= target
    /\ SumTake(Smallest(k - 1), k) < target

\* C13: for a target of 1 or more, when the least number k of smallest
\* candidates whose values reach the target is MAX_INPUTS or less, the
\* selection returns exactly those k candidates.
C13_DustSweep ==
    (selection # NoSelection /\ target >= 1) =>
        \A k \in 1..MAX_INPUTS :
            LeastCover(k) =>
                /\ is_ok(selection)
                /\ Len(selection.val) = k
                /\ Elems(selection.val) = Elems(Smallest(k))

\* C13 witness: several smallest candidates were selected and larger ones
\* were left.
C13_Witness ==
    /\ is_ok(selection)
    /\ target >= 1
    /\ Len(selection.val) >= 2
    /\ LeastCover(Len(selection.val))
    /\ Len(candidates) > Len(selection.val)
    /\ candidates[1].value > candidates[Len(candidates)].value

(***************************************************************************)
(* Receiving an output again.                                              *)
(***************************************************************************)
\* The Txo row of an id in a txos table.
row_of(t, txo_id_hex) == t[Min(RowsOf(t, txo_id_hex))]

\* The status row of an (account, Txo) pair in the store.
status_row(account_id_hex, txo_id_hex) ==
    CHOOSE r \in StatusRows(account_txo_statuses, account_id_hex, txo_id_hex) : TRUE

\* After the call that gave r the pair is unspent and the Txo row holds the
\* supplied subaddress index, key image and block height.
made_spendable(r, account_id_hex, txo_id_hex, subaddress_index, key_image, block_height) ==
    /\ is_ok(r)
    /\ status_of(r.db.statuses, account_id_hex, txo_id_hex) = TXO_UNSPENT
    /\ row_of(r.db.txos, txo_id_hex).subaddress_index = subaddress_index
    /\ row_of(r.db.txos, txo_id_hex).key_image = key_image
    /\ row_of(r.db.txos, txo_id_hex).received_block_height = Some(block_height)

\* C14: a pair that create_received creates with an unknown subaddress
\* index is orphaned; an update_received for an orphaned pair that supplies
\* a subaddress index and a key image, or a repeated create_received that
\* does and finds the pair with Txo::get, makes the pair unspent and stores
\* the supplied subaddress index, key image and block height in the Txo row.
C14_OrphanResolution ==
    /\ \A c \in CreateReceivedCalls :
          (/\ c[1] = 0
           /\ is_none(c[3])
           /\ status_of(account_txo_statuses, c[7], TxoID(c[2])) = "absent"
           /\ is_ok(call_create_received(c)))
              => status_of(call_create_received(c).db.statuses, c[7], TxoID(c[2]))
                     = TXO_ORPHANED
    /\ \A c \in UpdateReceivedCalls :
          (/\ c[1] = 0
           /\ status_of(account_txo_statuses, c[3], txos[c[2]].txo_id_hex) = TXO_ORPHANED
           /\ is_some(c[4])
           /\ is_some(c[5]))
              => made_spendable(call_update_received(c), c[3], txos[c[2]].txo_id_hex,
                                c[4], c[5], c[6])
    /\ \A c \in CreateReceivedCalls :
          (/\ c[1] = 0
           /\ status_of(account_txo_statuses, c[7], TxoID(c[2])) = TXO_ORPHANED
           /\ is_ok(get(DB(0), c[7], TxoID(c[2])))
           /\ is_some(c[3])
           /\ is_some(c[4]))
              => made_spendable(call_create_received(c), c[7], TxoID(c[2]),
                                c[3], c[4], c[6])

\* C14 witness: an orphaned pair whose Txo row has no subaddress index, and
\* a repeated create_received that makes it unspent.
C14_Witness ==
    \E c \in CreateReceivedCalls :
        /\ c[1] = 0
        /\ status_of(account_txo_statuses, c[7], TxoID(c[2])) = TXO_ORPHANED
        /\ is_none(row_of(txos, TxoID(c[2])).subaddress_index)
        /\ is_some(c[3])
        /\ is_some(c[4])
        /\ status_of(call_create_received(c).db.statuses, c[7], TxoID(c[2])) = TXO_UNSPENT

\* C15: a successful create_received for an account that has no status row
\* for the output creates exactly one, of type received, unspent when the
\* subaddress index is given and orphaned when it is not; when the output
\* already has a Txo row the txos table is left as it was.
C15_CreatedStatusRow ==
    \A c \in CreateReceivedCalls :
        LET r == call_create_received(c)
            created == StatusRows(r.db.statuses, c[7], TxoID(c[2]))
        IN  (status_of(account_txo_statuses, c[7], TxoID(c[2])) = "absent" /\ is_ok(r)) =>
                /\ created =
                      {[account_id_hex |-> c[7], txo_id_hex |-> TxoID(c[2]),
                        txo_status |-> IF is_some(c[3]) THEN TXO_UNSPENT ELSE TXO_ORPHANED,
                        txo_type |-> TXO_RECEIVED]}
                /\ r.db.statuses = account_txo_statuses \cup created
                /\ Cardinality(RowsOf(r.db.txos, TxoID(c[2]))) = 1
                /\ RowsOf(txos, TxoID(c[2])) # {} => r.db.txos = txos

\* C15 witness: the output has a Txo row and a status row of another
\* account, and a create_received with an unknown subaddress index for an
\* account without a status row succeeds.
C15_Witness ==
    \E c \in CreateReceivedCalls :
        /\ status_of(account_txo_statuses, c[7], TxoID(c[2])) = "absent"
        /\ RowsOf(txos, TxoID(c[2])) # {}
        /\ holders(TxoID(c[2])) # {}
        /\ is_none(c[3])
        /\ is_ok(call_create_received(c))

\* The update_received calls, without store fault, for a pair of type minted.
MintedUpdateCalls ==
    {c \in UpdateReceivedCalls :
        /\ c[1] = 0
        /\ StatusRows(account_txo_statuses, c[3], txos[c[2]].txo_id_hex) # {}
        /\ status_row(c[3], txos[c[2]].txo_id_hex).txo_type = TXO_MINTED}

\* C16 as claimed: for a pair of type minted, update_received stores the
\* supplied subaddress index, key image and block height and sets the
\* status to unspent, whatever the prior status and the supplied values.
C16_MintedAlwaysRefreshed ==
    \A c \in MintedUpdateCalls :
        made_spendable(call_update_received(c), c[3], txos[c[2]].txo_id_hex,
                       c[4], c[5], c[6])

\* C16 amended: for a pair of type minted, update_received with both a
\* subaddress index and a key image stores them and the block height and
\* sets the status to unspent, whatever the prior status; with either
\* absent it fails with NullSubaddressOnReceived and leaves both tables as
\* they were.
C16_MintedRefreshedWhenSpendable ==
    \A c \in MintedUpdateCalls :
        IF is_some(c[4]) /\ is_some(c[5])
        THEN made_spendable(call_update_received(c), c[3], txos[c[2]].txo_id_hex,
                            c[4], c[5], c[6])
        ELSE /\ call_update_received(c).err = "NullSubaddressOnReceived"
             /\ tables_unchanged(call_update_received(c))

\* C16 witness: a pair of type minted that is pending or spent, and an
\* update_received that sets it unspent.
C16_Witness ==
    \E c \in MintedUpdateCalls :
        /\ status_of(account_txo_statuses, c[3], txos[c[2]].txo_id_hex)
               \in {TXO_PENDING, TXO_SPENT}
        /\ is_ok(call_update_received(c))
        /\ status_of(call_update_received(c).db.statuses, c[3], txos[c[2]].txo_id_hex)
               = TXO_UNSPENT

\* The pair is of type received and its status is unspent, pending or spent.
received_and_processed(account_id_hex, txo_id_hex) ==
    /\ StatusRows(account_txo_statuses, account_id_hex, txo_id_hex) # {}
    /\ status_row(account_id_hex, txo_id_hex).txo_type = TXO_RECEIVED
    /\ status_row(account_id_hex, txo_id_hex).txo_status
           \in {TXO_UNSPENT, TXO_PENDING, TXO_SPENT}

\* C17: for a pair of type received that is unspent, pending or spent, every
\* update_received and every repeated create_received of the account,
\* whatever its arguments and its outcome, leaves the status rows as they
\* were.
C17_ReceivedStatusKept ==
    /\ \A c \in UpdateReceivedCalls :
          received_and_processed(c[3], txos[c[2]].txo_id_hex)
              => call_update_received(c).db.statuses = account_txo_statuses
    /\ \A c \in CreateReceivedCalls :
          received_and_processed(c[7], TxoID(c[2]))
              => call_create_received(c).db.statuses = account_txo_statuses

\* C17 witness: a pair of type received that is pending or spent is
\* received again with a new block height, which the Txo row takes.
C17_Witness ==
    \E c \in CreateReceivedCalls :
        /\ received_and_processed(c[7], TxoID(c[2]))
        /\ status_row(c[7], TxoID(c[2])).txo_status \in {TXO_PENDING, TXO_SPENT}
        /\ is_ok(call_create_received(c))
        /\ call_create_received(c).db.txos # txos

(***************************************************************************)
(* What create_minted stores and returns.                                  *)
(***************************************************************************)
\* The status rows a successful create_minted call c adds.
minted_status_rows(c) ==
    IF is_some(c[2])
    THEN {[account_id_hex |-> unwrap(c[2]), txo_id_hex |-> TxoID(c[3]),
           txo_status |-> TXO_SECRETED, txo_type |-> TXO_MINTED]}
    ELSE {}

\* C18: a successful create_minted appends one Txo row with no key image,
\* no subaddress index, no received block height and the proposal's
\* tombstone block as pending tombstone block height; with an account id
\* it adds exactly one status row, of type minted and status secreted, and
\* without one it adds no status row.
C18_MintedRowAndStatus ==
    \A c \in CreateMintedCalls :
        LET r == call_create_minted(c)
        IN  is_ok(r) =>
                /\ Len(r.db.txos) = Len(txos) + 1
                /\ RowsOf(r.db.txos, TxoID(c[3])) = {Len(r.db.txos)}
                /\ is_none(r.db.txos[Len(r.db.txos)].key_image)
                /\ is_none(r.db.txos[Len(r.db.txos)].subaddress_index)
                /\ is_none(r.db.txos[Len(r.db.txos)].received_block_height)
                /\ r.db.txos[Len(r.db.txos)].pending_tombstone_block_height
                       = Some(c[4].tombstone_block)
                /\ r.db.statuses = account_txo_statuses \cup minted_status_rows(c)
                /\ is_some(c[2]) =>
                      StatusRows(r.db.statuses, unwrap(c[2]), TxoID(c[3]))
                          = minted_status_rows(c)

\* C18 witness: the store after one create_minted with an account id.
C18_Witness ==
    /\ Len(txos) = 1
    /\ received_calls = {}
    /\ is_none(txos[1].key_image)
    /\ is_some(txos[1].pending_tombstone_block_height)
    /\ \E a \in Accounts :
          account_txo_statuses =
              {[account_id_hex |-> a, txo_id_hex |-> txos[1].txo_id_hex,
                txo_status |-> TXO_SECRETED, txo_type |-> TXO_MINTED]}

\* C19: the value a successful create_minted returns is the value of the
\* Txo row it created.
C19_ReturnedValueIsStoredValue ==
    \A c \in CreateMintedCalls :
        LET r == call_create_minted(c)
        IN  is_ok(r) => r.val[3] = row_of(r.db.txos, r.val[2]).value

\* C20: update_to_spendable called without a subaddress index or without a
\* key image fails with NullSubaddressOnReceived and leaves both tables as
\* they were.
C20_SpendableNeedsBoth ==
    \A c \in UpdateToSpendableCalls :
        (is_none(c[3]) \/ is_none(c[4])) =>
            /\ call_update_to_spendable(c).err = "NullSubaddressOnReceived"
            /\ tables_unchanged(call_update_to_spendable(c))

\* C20 witness: a Txo row that has a subaddress index and a key image, and
\* a call without a key image that fails.
C20_Witness ==
    \E c \in UpdateToSpendableCalls :
        /\ is_some(txos[c[2]].subaddress_index)
        /\ is_some(txos[c[2]].key_image)
        /\ is_some(c[3])
        /\ is_none(c[4])
        /\ ~is_ok(call_update_to_spendable(c))

(***************************************************************************)
(* What update_to_pending writes.                                          *)
(***************************************************************************)
\* C21: update_to_pending for a Txo that no account holds fails and leaves
\* both tables as they were; otherwise, unless the store fails, it succeeds,
\* leaves the txos table and every other status row as they were and sets
\* the row of the account found for the Txo to pending.
C21_PendingOnlyOwnersRow ==
    \A c \in UpdateToPendingCalls :
        LET r == call_update_to_pending(c)
        IN  lookup_gives(c) =>
                IF holders(c[2]) = {}
                THEN ~is_ok(r) /\ tables_unchanged(r)
                ELSE /\ c[1] = 0 => is_ok(r)
                     /\ is_ok(r) =>
                           /\ r.db.txos = txos
                           /\ r.db.statuses =
                                 (account_txo_statuses \ {status_row(unwrap(c[3]), c[2])})
                                     \cup {[status_row(unwrap(c[3]), c[2])
                                               EXCEPT !.txo_status = TXO_PENDING]}

\* C21 witness: both accounts hold the Txo as unspent, and update_to_pending
\* succeeds for the account found.
C21_Witness ==
    \E c \in UpdateToPendingCalls :
        /\ lookup_gives(c)
        /\ \A a \in Accounts : status_of(account_txo_statuses, a, c[2]) = TXO_UNSPENT
        /\ is_ok(call_update_to_pending(c))

(***************************************************************************)
(* The errors of Txo::get and the arm create_received takes.               *)
(***************************************************************************)
\* C22: get returns TxoNotFound exactly when no Txo row has the id, and
\* TxoExistsForAnotherAccount exactly when a Txo row has it and the account
\* has no status row for it; a create_received without store fault succeeds
\* in both cases, inserting a Txo row and a status row in the first and
\* only a status row in the second.
C22_GetErrorsAndArms ==
    /\ \A a \in Accounts, t \in TxoIds :
          /\ get(DB(0), a, t).err = "TxoNotFound" <=> RowsOf(txos, t) = {}
          /\ get(DB(0), a, t).err = "TxoExistsForAnotherAccount" <=>
                 (RowsOf(txos, t) # {} /\ StatusRows(account_txo_statuses, a, t) = {})
    /\ \A c \in CreateReceivedCalls :
          LET r == call_create_received(c)
              t == TxoID(c[2])
          IN  (c[1] = 0 /\ StatusRows(account_txo_statuses, c[7], t) = {}) =>
                  /\ is_ok(r)
                  /\ Cardinality(r.db.statuses) = Cardinality(account_txo_statuses) + 1
                  /\ Len(r.db.txos) = IF RowsOf(txos, t) = {} THEN Len(txos) + 1
                                      ELSE Len(txos)

\* C22 witness: a Txo row that one account holds and the other does not.
C22_Witness ==
    \E a, b \in Accounts, t \in TxoIds :
        /\ is_ok(get(DB(0), a, t))
        /\ get(DB(0), b, t).err = "TxoExistsForAnotherAccount"
        /\ \E c \in CreateReceivedCalls :
              c[1] = 0 /\ c[7] = b /\ call_create_received(c).db.txos = txos

(***************************************************************************)
(* Key images reported as spent.                                           *)
(***************************************************************************)
\* The rows of the account that a call <<account, height, key images>> hits.
spent_hits(c) ==
    {i \in DOMAIN txos :
        /\ StatusRows(account_txo_statuses, c[1], txos[i].txo_id_hex) # {}
        /\ is_some(txos[i].key_image)
        /\ unwrap(txos[i].key_image) \in c[3]}

outcome(r) == [err |-> r.err, statuses |-> r.db.statuses]

\* The outcomes of all calls of the operations that write, as the store is.
WriteOutcomes ==
    {outcome(call_create_received(c)) : c \in CreateReceivedCalls}
        \cup {outcome(call_create_minted(c)) : c \in CreateMintedCalls}
        \cup {outcome(call_update_received(c)) : c \in UpdateReceivedCalls}
        \cup {outcome(call_update_to_spendable(c)) : c \in UpdateToSpendableCalls}
        \cup {outcome(call_update_to_pending(c)) :
                 c \in {x \in UpdateToPendingCalls : lookup_gives(x)}}
        \cup {outcome(call_update_spent(c)) : c \in UpdateSpentCalls}

\* C24: every status row has type received or minted, and every call of
\* every operation leaves each status row there was in place with the type
\* it had; no call reaches the panic of an unknown type.
C24_TypeFixed ==
    /\ \A r \in account_txo_statuses : r.txo_type \in {TXO_RECEIVED, TXO_MINTED}
    /\ \A w \in WriteOutcomes :
          /\ w.err # "panic"
          /\ \A r \in account_txo_statuses :
                /\ StatusRows(w.statuses, r.account_id_hex, r.txo_id_hex) # {}
                /\ \A q \in StatusRows(w.statuses, r.account_id_hex, r.txo_id_hex) :
                      q.txo_type = r.txo_type

\* C24 witness: a pair of type minted that was received and then marked
\* pending or spent, beside a pair of type received.
C24_Witness ==
    /\ \E r \in account_txo_statuses :
          r.txo_type = TXO_MINTED /\ r.txo_status \in {TXO_PENDING, TXO_SPENT}
    /\ \E r \in account_txo_statuses : r.txo_type = TXO_RECEIVED

(***************************************************************************)
(* Txo::select_by_id, Txo::any_failed and Txo::verify_proof                *)
(***************************************************************************)
\* The joined (Txo, status) pairs of the named Txos, for every account.
select_by_id(db, txo_ids) ==
    Ok(db, {<<db.txos[j[1]], j[2]>> : j \in {x \in joined_rows(db) :
                                             x[2].txo_id_hex \in Elems(txo_ids)}})

\* A faulty variant of the function below: a tombstone block equal to
\* block_height counts as failed too.
any_failed_at_tombstone(db, txo_ids, block_height) ==
    LET failed == {j \in joined_rows(db) :
                      /\ j[2].txo_id_hex \in Elems(txo_ids)
                      /\ j[2].txo_status \in {TXO_UNSPENT, TXO_PENDING}
                      /\ is_some(db.txos[j[1]].pending_tombstone_block_height)
                      /\ unwrap(db.txos[j[1]].pending_tombstone_block_height) <= block_height}
    IN  Ok(db, failed # {})

\* Whether a named Txo that is unspent or pending for some account has a
\* pending tombstone block below block_height; a null tombstone block
\* compares as false.
any_failed(db, txo_ids, block_height) ==
    LET failed == {j \in joined_rows(db) :
                      /\ j[2].txo_id_hex \in Elems(txo_ids)
                      /\ j[2].txo_status \in {TXO_UNSPENT, TXO_PENDING}
                      /\ is_some(db.txos[j[1]].pending_tombstone_block_height)
                      /\ unwrap(db.txos[j[1]].pending_tombstone_block_height) < block_height}
    IN  Ok(db, failed # {})

\* The public key stored with a Txo row: that of the output the id names.
public_key(txo) == <<"public_key", txo.txo_id_hex>>

\* The view private key of the account key stored with an account.
view_private_key(account_id_hex) == <<"view_private_key", account_id_hex>>

\* The confirmation number of an output for a recipient: made from the
\* secret the output's public key and the recipient's view key share.
ConfirmationNumber(pk, vk) == <<pk, vk>>

\* TxOutConfirmationNumber::validate
validate(proof, pk, vk) == proof = ConfirmationNumber(pk, vk)

\* A faulty variant of the function below: the Txo is loaded by its id alone.
verify_proof_any_account(db, account_id_hex, txo_id_hex, proof) ==
    LET rows == RowsOf(db.txos, txo_id_hex)
    IN  IF rows = {} THEN Err(db, "TxoNotFound")
        ELSE Ok(db, validate(proof, public_key(db.txos[Min(rows)]),
                             view_private_key(account_id_hex)))

\* Txo::get, then the validation of the proof against the stored public key
\* and the account's view key.
verify_proof(db, account_id_hex, txo_id_hex, proof) ==
    LET g == get(db, account_id_hex, txo_id_hex)
    IN  IF ~is_ok(g) THEN Err(db, g.err)
        ELSE Ok(db, validate(proof, public_key(g.val[1]),
                             view_private_key(account_id_hex)))

\* The id of an output the store has no row for.
OtherTxoId == TxoID("o2")

\* The confirmation numbers a caller may present: of an output of the model
\* or of another output, for the view key of either account.
Proofs ==
    {ConfirmationNumber(<<"public_key", t>>, view_private_key(a)) :
        t \in TxoIds \cup {OtherTxoId}, a \in Accounts}

\* C25: the read operations write nothing: whatever select_unspent_txos_for_value,
\* verify_proof, get, list_for_account, list_by_status, select_by_id,
\* are_all_spent and any_failed return, an error included, both tables are
\* after the call what they were before it; the Txos a selection returns
\* keep their status.
C25_ReadsWriteNothing ==
    /\ \A c \in SelectCalls : \A r \in call_select(c) : tables_unchanged(r)
    /\ \A a \in Accounts :
          /\ tables_unchanged(list_for_account(DB(0), a))
          /\ tables_unchanged(list_by_status(DB(0), a))
          /\ \A t \in TxoIds \cup {OtherTxoId} :
                /\ tables_unchanged(get(DB(0), a, t))
                /\ \A proof \in Proofs : tables_unchanged(verify_proof(DB(0), a, t, proof))
    /\ \A ids \in TxoIdLists :
          /\ tables_unchanged(select_by_id(DB(0), ids))
          /\ tables_unchanged(are_all_spent(DB(0), ids))
          /\ \A h \in Heights : tables_unchanged(any_failed(DB(0), ids, h))

\* C25 witness: a selection returns a Txo for one account while get and
\* verify_proof fail for the other account, which has no status row for it.
C25_Witness ==
    /\ \E c \in SelectCalls : \E r \in call_select(c) : is_ok(r) /\ r.val # << >>
    /\ \E a \in Accounts : \E t \in TxoIds :
          /\ ~is_ok(get(DB(0), a, t))
          /\ \E proof \in Proofs : ~is_ok(verify_proof(DB(0), a, t, proof))

\* The ceiling of a selection: the most MAX_INPUTS of the loaded Txos sum to.
max_spendable_in_wallet == SumTake(candidates, MAX_INPUTS)

\* The insufficient-funds errors of select_unspent_txos_for_value.
InsufficientFundsErrors ==
    {"InsufficientFundsFragmentedTxos", "InsufficientFundsUnderMaxSpendable",
     "InsufficientFunds: Not enough Txos", "InsufficientFunds: Logic error"}

\* C26: every insufficient-funds error of a selection (fragmented, under
\* max spendable, plain) carries the target value and the ceiling, the
\* maximum spendable value in the wallet.
C26_InsufficientCarriesTargetAndCeiling ==
    selection.err \in InsufficientFundsErrors =>
        /\ <<"target_value", target>> \in selection.args
        /\ <<"max_spendable_in_wallet", max_spendable_in_wallet>> \in selection.args

\* The receipt fields of a Txo row.
receipt_fields(txo) ==
    <<txo.subaddress_index, txo.key_image, txo.received_block_height>>

\* C27: for a pair of type received that is not orphaned, update_received
\* rewrites the receipt fields of the Txo (subaddress index, key image,
\* received block height) only when a subaddress index is supplied and the
\* stored subaddress index was null; when the stored subaddress index was
\* set, the receipt fields stay as they were.
C27_ReceiptFieldsRewrittenOnlyWhenNull ==
    \A c \in UpdateReceivedCalls :
        LET self == txos[c[2]]
            rows == StatusRows(account_txo_statuses, c[3], self.txo_id_hex)
            r == call_update_received(c)
        IN  (\E q \in rows : q.txo_type = TXO_RECEIVED /\ q.txo_status # TXO_ORPHANED)
                => /\ receipt_fields(r.db.txos[c[2]]) # receipt_fields(self)
                        => is_some(c[4]) /\ is_none(self.subaddress_index)
                   /\ is_some(self.subaddress_index)
                        => receipt_fields(r.db.txos[c[2]]) = receipt_fields(self)

\* The confirmation number of the output of a Txo for an account.
confirmation_of(txo_id_hex, account_id_hex) ==
    ConfirmationNumber(<<"public_key", txo_id_hex>>, view_private_key(account_id_hex))

\* C28: verify_proof(account, txo, c) returns true when c is the confirmation
\* number of that output for the account's view key, false when c is that
\* of another output or for another key, and an error, not a boolean, when
\* the account has no status row for the Txo.
C28_VerifyProof ==
    \A a \in Accounts : \A t \in TxoIds : \A proof \in Proofs :
        LET r == verify_proof(DB(0), a, t, proof)
        IN  /\ StatusRows(account_txo_statuses, a, t) = {} => ~is_ok(r)
            /\ (is_ok(get(DB(0), a, t)) /\ proof = confirmation_of(t, a))
                    => is_ok(r) /\ r.val = TRUE
            /\ (is_ok(get(DB(0), a, t)) /\ proof # confirmation_of(t, a))
                    => is_ok(r) /\ r.val = FALSE

\* C28 witness: one account holds the Txo and its proof verifies, the other
\* account has the Txo row in the store but no status row for it.
C28_Witness ==
    \E a, b \in Accounts : \E t \in TxoIds :
        /\ is_ok(verify_proof(DB(0), a, t, confirmation_of(t, a)))
        /\ verify_proof(DB(0), a, t, confirmation_of(t, a)).val = TRUE
        /\ RowsOf(txos, t) # {}
        /\ StatusRows(account_txo_statuses, b, t) = {}
        /\ ~is_ok(verify_proof(DB(0), b, t, confirmation_of(t, b)))

(***************************************************************************)
(* Two transaction-building tasks for one account, running concurrently.   *)
(* A task selects its inputs with select_unspent_txos_for_value and then   *)
(* marks each of them with update_to_pending, every call being a store     *)
(* operation of its own; the calls of the two tasks interleave.            *)
(***************************************************************************)
Tasks == {"task1", "task2"}

BuildAccount == "a1"

BuildOutputs == <<"o1", "o2">>

\* The stores the tasks may start from: the account has received both
\* outputs, each with or without a subaddress index and a key image.
BuildStores ==
    {create_received(
         create_received(Conn(<< >>, {}, 0), BuildOutputs[1], sub1, ki1, v1, h1,
                         BuildAccount).db,
         BuildOutputs[2], sub2, ki2, v2, h2, BuildAccount).db :
        sub1 \in OptionOf(SubaddressIndices), sub2 \in OptionOf(SubaddressIndices),
        ki1 \in OptionOf({KeyImage(BuildOutputs[1])}),
        ki2 \in OptionOf({KeyImage(BuildOutputs[2])}),
        v1 \in Values, v2 \in Values, h1 \in {Min(Heights)}, h2 \in Heights}

BuildInit ==
    /\ \E s \in BuildStores :
          /\ txos = s.txos
          /\ account_txo_statuses = s.statuses
    /\ received_calls = {<<BuildAccount, TxoID(BuildOutputs[1])>>,
                         <<BuildAccount, TxoID(BuildOutputs[2])>>}
    /\ minted_unowned = {}
    /\ candidates = << >>
    /\ target = 0
    /\ selection = NoSelection
    /\ pc = [k \in Tasks |-> [at |-> "idle", call |-> << >>, tries |-> 0, got |-> << >>]]

\* The task selects the inputs of its transaction; got is what was
\* selected, tries the number of inputs marked so far.
BuildSelect(k) ==
    /\ pc[k].at = "idle"
    /\ \E t \in Targets :
       \E r \in select_unspent_txos_for_value(DB(0), BuildAccount, t, None) :
          /\ Commit(r)
          /\ pc' = [pc EXCEPT ![k] =
                       [at |-> IF is_ok(r) THEN "selected" ELSE "failed",
                        call |-> <<t>>, tries |-> 0, got |-> r.val]]
    /\ UNCHANGED <<received_calls, minted_unowned, candidates, target, selection>>

\* The task marks its next input pending.
BuildPending(k) ==
    /\ pc[k].at = "selected"
    /\ LET txo_id == pc[k].got[pc[k].tries + 1].txo_id_hex
       IN  \E account \in Account_get_by_txo_id(DB(0), txo_id) :
              LET r == update_to_pending(DB(0), txo_id, Some(account))
              IN  /\ Commit(r)
                  /\ pc' = [pc EXCEPT ![k] =
                               [at |-> IF ~is_ok(r) THEN "failed"
                                       ELSE IF pc[k].tries + 1 = Len(pc[k].got)
                                       THEN "built" ELSE "selected",
                                call |-> pc[k].call, tries |-> pc[k].tries + 1,
                                got |-> pc[k].got]]
    /\ UNCHANGED <<received_calls, minted_unowned, candidates, target, selection>>

BuildNext ==
    \E k \in Tasks :
        \/ BuildSelect(k)
        \/ BuildPending(k)

BuildSpec == BuildInit /\ [][BuildNext]_vars

\* The Txos a task has as the inputs of its transaction.
inputs_of(k) ==
    IF pc[k].at \in {"selected", "built"}
    THEN {pc[k].got[j].txo_id_hex : j \in DOMAIN pc[k].got}
    ELSE {}

\* C29: in every interleaving of the store operations of the two tasks, no
\* Txo is an input of both transactions.
C29_NoSharedInput ==
    \A j, k \in Tasks :
        (j # k /\ pc[j].at = "built" /\ pc[k].at = "built")
            => inputs_of(j) \cap inputs_of(k) = {}

\* C30: in every reachable state, every (account, Txo) pair whose status is
\* unspent has a Txo row with a subaddress index and a key image, whichever
\* account created the row and whatever the receipt supplied.
C30_UnspentHasSubaddressAndKeyImage ==
    \A r \in account_txo_statuses :
        r.txo_status = TXO_UNSPENT =>
            /\ RowsOf(txos, r.txo_id_hex) # {}
            /\ \A i \in RowsOf(txos, r.txo_id_hex) :
                  /\ is_some(txos[i].subaddress_index)
                  /\ is_some(txos[i].key_image)

\* C31: a selection from a non-empty candidate vector with a target value
\* of at most the sum of the MAX_INPUTS largest values returns Ok, and no
\* selection, whatever its target value, 0 included, returns the
\* 'Not enough Txos' or the 'Logic error' insufficient-funds error.
C31_CoveredTargetSelects ==
    selection # NoSelection =>
        /\ (candidates # << >> /\ target <= max_spendable_in_wallet) => is_ok(selection)
        /\ selection.err \notin {"InsufficientFunds: Not enough Txos",
                                 "InsufficientFunds: Logic error"}

(***************************************************************************)
(* The window the coin selection returns.                                  *)
(***************************************************************************)
\* The length of the window that ends at the j-th smallest candidate.
WindowLen(j) == IF j < MAX_INPUTS THEN j ELSE MAX_INPUTS

\* The window that ends at the j-th smallest candidate, in the order the
\* loop pushes: the last WindowLen(j) of the j smallest, by ascending value.
Window(j) ==
    [i \in 1..WindowLen(j) |-> candidates[Len(candidates) - j + WindowLen(j) - i + 1]]

\* The sum of the values of that window.
WindowSum(j) ==
    RangeSum(Len(candidates) - j + 1, Len(candidates) - j + WindowLen(j))

\* C32: a successful selection returns a window of consecutive entries of
\* the candidates by ascending value, the last min(j, MAX_INPUTS) of the j
\* smallest, and it is the lowest window whose values sum to the target: no
\* window that ends at an earlier position has values that sum to it.
C32_LowestWindow ==
    is_ok(selection) =>
        \E j \in 1..Len(candidates) :
            /\ selection.val = Window(j)
            /\ WindowSum(j) >= target
            /\ \A e \in 1..(j - 1) : WindowSum(e) < target

(***************************************************************************)
(* Txos that any_failed reports.                                           *)
(***************************************************************************)
\* The block heights any_failed may be asked about: those of the model and
\* the one after them.
FailedHeights == Heights \cup {MaxHeight + 1}

\* C33: a minted Txo that its account has received back from the ledger
\* (received block height set, status unspent), and the same Txo once it is
\* pending as an input of a new transaction, is not reported as failed by
\* any_failed at any block height.
C33_ReceivedChangeNeverFailed ==
    \A r \in account_txo_statuses :
        (/\ r.txo_type = TXO_MINTED
         /\ r.txo_status \in {TXO_UNSPENT, TXO_PENDING}
         /\ is_some(row_of(txos, r.txo_id_hex).received_block_height))
            => \A h \in FailedHeights :
                  any_failed(DB(0), <<r.txo_id_hex>>, h).val = FALSE

\* A Txo that is unspent or pending for some account and whose pending
\* tombstone block is set and below h.
expired(txo_id_hex, h) ==
    /\ \E r \in account_txo_statuses :
          r.txo_id_hex = txo_id_hex /\ r.txo_status \in {TXO_UNSPENT, TXO_PENDING}
    /\ \E i \in RowsOf(txos, txo_id_hex) :
          /\ txos[i].pending_tombstone_block_height # None
          /\ txos[i].pending_tombstone_block_height[1] < h

\* C34: any_failed(ids, h) returns true exactly when some Txo named in ids
\* has a status row of status unspent or pending and a pending tombstone
\* block that is set and strictly below h; a null tombstone, a tombstone
\* equal to h, and rows that are all spent, secreted or orphaned never make
\* it true.
C34_AnyFailedExact ==
    \A ids \in TxoIdLists : \A h \in FailedHeights :
        /\ is_ok(any_failed(DB(0), ids, h))
        /\ any_failed(DB(0), ids, h).val = (\E t \in Elems(ids) : expired(t, h))

\* C34 witness: a Txo that is unspent or pending is reported at a height
\* above its tombstone block and not at the tombstone block itself.
C34_Witness ==
    \E ids \in TxoIdLists : \E h \in FailedHeights :
        /\ any_failed(DB(0), ids, h).val = TRUE
        /\ any_failed(DB(0), ids, h - 1).val = FALSE
        /\ \E i \in DOMAIN txos : txos[i].pending_tombstone_block_height = Some(h - 1)

(***************************************************************************)
(* A pending Txo whose transaction expired. The two building tasks mark    *)
(* their inputs pending; the sync driver goes on receiving the account's   *)
(* outputs from the ledger, which never reports a key image spent.         *)
(***************************************************************************)
\* The sync driver receives an output of the account again.
ExpirySync ==
    /\ \E n \in DOMAIN BuildOutputs :
       \E sub \in OptionOf(SubaddressIndices) :
       \E ki \in OptionOf({KeyImage(BuildOutputs[n])}) :
       \E h \in Heights :
          Commit(create_received(DB(0), BuildOutputs[n], sub, ki,
                                 row_of(txos, TxoID(BuildOutputs[n])).value, h,
                                 BuildAccount))
    /\ UNCHANGED <<received_calls, minted_unowned, candidates, target, selection, pc>>

ExpiryNext ==
    \/ BuildNext
    \/ ExpirySync

\* The tasks start from a store whose Txos are all spendable.
ExpiryInit ==
    /\ BuildInit
    /\ \A i \in DOMAIN txos :
          /\ is_some(txos[i].subaddress_index)
          /\ is_some(txos[i].key_image)
          /\ txos[i].received_block_height = Some(Min(Heights))

ExpirySpec == ExpiryInit /\ [][ExpiryNext]_vars /\ WF_vars(ExpiryNext)

\* The account's status row for the Txo has the status.
has_status(t, txo_status) ==
    \E r \in StatusRows(account_txo_statuses, BuildAccount, t) :
        r.txo_status = txo_status

\* C35: a pair that is pending, unless its key image is observed spent,
\* eventually returns to unspent: it does not stay pending forever.
C35_PendingReturnsToUnspent ==
    \A n \in DOMAIN BuildOutputs :
        has_status(TxoID(BuildOutputs[n]), TXO_PENDING)
            ~> (has_status(TxoID(BuildOutputs[n]), TXO_UNSPENT)
                    \/ has_status(TxoID(BuildOutputs[n]), TXO_SPENT))

(***************************************************************************)
(* create_minted called with any proposal, one whose inputs do not cover   *)
(* its outlays and fee included.                                           *)
(***************************************************************************)
MintOutputs == TxOuts

\* The proposals a caller may hand over: one input of any value, one outlay
\* placed at output index 0 and the change at output index 1.
MintProposals ==
    {[utxos |-> <<[value |-> iv]>>,
      outlays |-> <<[value |-> ov, receiver |-> "r1"]>>,
      fee |-> ProposalFee,
      outlay_index_to_tx_out_index |-> {<<0, 0>>},
      outlay_confirmation_numbers |-> <<"c1">>,
      tombstone_block |-> tb] :
        iv \in 1..(MaxValue + ProposalChange + ProposalFee), ov \in Values,
        tb \in Heights}

\* <<account_id_hex, output, tx_proposal, output_index>>
MintCalls ==
    {<<a, o, p, output_index>> :
        a \in OptionOf(Accounts), o \in MintOutputs, p \in MintProposals,
        output_index \in OutputIndices}

\* The subtraction total_input_value - total_output_value - fee goes below 0.
change_value_underflows(tx_proposal) ==
    SumValues(tx_proposal.utxos) < SumValues(tx_proposal.outlays) + tx_proposal.fee

\* What a call may do: an unsigned subtraction that goes below 0 panics in
\* a build with overflow checks and wraps in a build without them.
create_minted_outcomes(db, account_id_hex, output, tx_proposal, output_index) ==
    {create_minted(db, account_id_hex, output, tx_proposal, output_index)}
        \cup (IF change_value_underflows(tx_proposal) THEN {Err(db, "panic")} ELSE {})

MintInit ==
    /\ StoreInit
    /\ candidates = << >>
    /\ target = 0
    /\ selection = NoSelection
    /\ pc = Idle

\* A call of create_minted; selection keeps the call and what it returned.
MintOutput ==
    \E c \in MintCalls :
    \E r \in create_minted_outcomes(DB(0), c[1], c[2], c[3], c[4]) :
        /\ Commit(r)
        /\ minted_unowned' = IF is_ok(r) /\ is_none(c[1])
                             THEN minted_unowned \cup {TxoID(c[2])}
                             ELSE minted_unowned
        /\ selection' = [err |-> r.err, val |-> <<c, r.val>>, args |-> {}]
        /\ UNCHANGED <<received_calls, candidates, target, pc>>

MintNext == MintOutput

MintSpec == MintInit /\ [][MintNext]_vars

\* C36: a create_minted whose output index maps to an outlay stores that
\* outlay's value and confirmation number and returns kind OUTPUT and the
\* outlay's receiver; for any other output index it stores the value total
\* input minus total outlay minus fee and no proof and returns kind CHANGE
\* and no receiver; the stored value is never negative, and no call
\* underflows or wraps around, inputs below outlays plus fee included.
C36_MintedValueAndKind ==
    selection # NoSelection =>
        LET c == selection.val[1]
            ret == selection.val[2]
            tx_proposal == c[3]
            hit == {kv \in tx_proposal.outlay_index_to_tx_out_index : kv[2] = c[4]}
            row == row_of(txos, TxoID(c[2]))
        IN  /\ selection.err # "panic"
            /\ selection.err = "" =>
                  /\ row.value >= 0
                  /\ \A kv \in hit :
                        /\ row.value = tx_proposal.outlays[kv[1] + 1].value
                        /\ row.proof = Some(tx_proposal.outlay_confirmation_numbers[kv[1] + 1])
                        /\ ret[4] = OUTPUT
                        /\ ret[1] = Some(tx_proposal.outlays[kv[1] + 1].receiver)
                  /\ hit = {} =>
                        /\ row.value = SumValues(tx_proposal.utxos)
                                           - SumValues(tx_proposal.outlays) - tx_proposal.fee
                        /\ row.proof = None
                        /\ ret[4] = CHANGE
                        /\ ret[1] = None

(***************************************************************************)
(* The status rows of the other accounts.                                  *)
(***************************************************************************)
\* The account's status row for the Txo has the status.
has_status_row(a, t, txo_status) ==
    \E r \in StatusRows(account_txo_statuses, a, t) : r.txo_status = txo_status

\* The call for account b and Txo t that gave the status rows after left
\* every row of another account as it was and wrote no row but (b, t).
only_own_row(after, b, t) ==
    /\ \A r \in account_txo_statuses : r.account_id_hex # b => r \in after
    /\ \A r \in after \ account_txo_statuses :
          r.account_id_hex = b /\ r.txo_id_hex = t

\* C37: a create_received or an update_received for an account changes
\* neither the status nor the type of any status row of another account,
\* also when both hold the same output: only the row of the account and the
\* output is inserted or updated.
C37_OtherAccountsRowsKept ==
    /\ \A c \in CreateReceivedCalls :
          only_own_row(call_create_received(c).db.statuses, c[7], TxoID(c[2]))
    /\ \A c \in UpdateReceivedCalls :
          only_own_row(call_update_received(c).db.statuses, c[3], txos[c[2]].txo_id_hex)

\* C37 witness: two accounts hold the same output, one as orphaned and the
\* other as pending or spent, and an update_received for the first makes
\* its row unspent.
C37_Witness ==
    \E c \in UpdateReceivedCalls :
        /\ has_status_row(c[3], txos[c[2]].txo_id_hex, TXO_ORPHANED)
        /\ \E a \in Accounts \ {c[3]} :
              \/ has_status_row(a, txos[c[2]].txo_id_hex, TXO_PENDING)
              \/ has_status_row(a, txos[c[2]].txo_id_hex, TXO_SPENT)
        /\ is_ok(call_update_received(c))
        /\ call_update_received(c).db.statuses # account_txo_statuses

(***************************************************************************)
(* Minting an output the store has a row for.                              *)
(***************************************************************************)
\* C38: create_minted for an output whose Txo row exists, minted before or
\* recorded by create_received, fails with a store error and leaves the
\* Txo rows and the status rows as they were: no second row of the
\* identity, no received field overwritten.
C38_MintedTwiceFails ==
    \A c \in CreateMintedCalls :
        RowsOf(txos, TxoID(c[3])) # {} =>
            /\ call_create_minted(c).err \in {"UniqueViolation", "StoreError"}
            /\ tables_unchanged(call_create_minted(c))

\* C38 witness: a create_minted without store fault fails for an output
\* that was received with a subaddress index and a key image.
C38_Witness ==
    \E c \in CreateMintedCalls :
        /\ c[1] = 0
        /\ RowsOf(txos, TxoID(c[3])) # {}
        /\ is_some(row_of(txos, TxoID(c[3])).received_block_height)
        /\ is_some(row_of(txos, TxoID(c[3])).key_image)
        /\ call_create_minted(c).err = "UniqueViolation"

(***************************************************************************)
(* The lists of list_by_status.                                            *)
(***************************************************************************)
\* C39: for every account the five lists of list_by_status are pairwise
\* disjoint and their union is the set of the Txos list_for_account
\* returns: no output is under two statuses or under none.
C39_ListsPartition ==
    \A a \in Accounts :
        LET lists == list_by_status(DB(0), a).val
            all == {x[1] : x \in list_for_account(DB(0), a).val}
        IN  /\ DOMAIN lists = {TXO_UNSPENT, TXO_PENDING, TXO_SPENT, TXO_SECRETED,
                                TXO_ORPHANED}
            /\ \A s1, s2 \in DOMAIN lists : s1 # s2 => lists[s1] \cap lists[s2] = {}
            /\ UNION {lists[st] : st \in DOMAIN lists} = all

\* C39 witness: the two accounts hold the same output, one as orphaned and
\* the other as spent.
C39_Witness ==
    \E a, b \in Accounts :
        /\ list_by_status(DB(0), a).val[TXO_ORPHANED] # {}
        /\ list_by_status(DB(0), b).val[TXO_SPENT] # {}
        /\ list_by_status(DB(0), a).val[TXO_ORPHANED]
               = list_by_status(DB(0), b).val[TXO_SPENT]
====
